---- MODULE Spec2Model ----
(***************************************************************************)
(* Model of the subscription engine of getamis/graphql-client              *)
(* (src/graphql.go, type SubscriptionClient): the constructor and its      *)
(* handshake, the dispatch goroutine subWork, and the caller operations    *)
(* Subscribe, Unsubscribe and Close, run by concurrent caller tasks over   *)
(* one websocket connection.                                               *)
(***************************************************************************)
EXTENDS Integers, Sequences, FiniteSets, Bags, TLC

\* ------------------------------------------------------------------ bounds
MaxSubscribes == 2      \* Subscribe calls that get as far as reading subIdGen
MaxFrames == 3          \* frames ReadJSON returns
MaxCloses == 2          \* Close calls

Tasks == {"t1", "t2"}   \* caller goroutines: both subscribe,
Closers == {"t2"}       \* one of them closes the client,
Unsubscribers == {"t1"} \* the other unsubscribes

\* --------------------------------------------------------- wire constants
gql_connection_init == "connection_init"
gql_start == "start"
gql_stop == "stop"
gql_connection_ack == "connection_ack"
gql_connection_terminate == "connection_terminate"
gql_connection_error == "connection_error"
gql_data == "data"
gql_error == "error"
gql_complete == "GQL_COMPLETE"
gql_connection_keep_alive == "ka"

NilId == "<nil>"        \* msg.Id == nil
NilCh == 0              \* a nil interface value / nil Subscription

\* strconv.Itoa
Itoa(n) == ToString(n)

VARIABLES
  hs,         \* the constructor: its position, conn, its local msg and what it returned
  proc,       \* the process: "running", "exited" (log.Fatalf), "crashed" (panic)
  loopPc,     \* position of the subWork goroutine
  panicking,  \* subWork is unwinding because of a panic
  msg,        \* subWork's local msg: the frame ReadJSON decoded
  ch,         \* subWork's local ch: the channel it is sending on
  visited,    \* keys the deferred subs.Range has visited
  sweepStart, \* the contents of subs when subWork returned and its deferred Range began
  subWait,    \* c.subWait, the WaitGroup counter
  subIdGen,   \* c.subIdGen
  subs,       \* c.subs, the sync.Map: identifier -> channel
  chans,      \* the Subscription channels made so far
  wsClosed,   \* c.subWebsocket.Close() has been called
  nread,      \* the number of frames ReadJSON has returned
  completeSeen, \* the registered identifiers a "complete" frame has been read for
  outbound,   \* the frames WriteJSON has written (a bag)
  pc,         \* position of each caller task
  loc,        \* locals of each caller task (id, tmp, subChan)
  ret,        \* the error the last call to return returned: "nil" or "err" ("" before)
  calls,      \* the number of Close calls made
  held        \* the channels successful Subscribe calls returned

vars == <<hs, proc, loopPc, panicking, msg, ch, visited, sweepStart,
          subWait, subIdGen, subs, chans, wsClosed, nread, completeSeen, outbound,
          pc, loc, ret, held, calls>>

loopVars == <<loopPc, panicking, msg, ch, visited, sweepStart>>

\* ----------------------------------------------------------------- frames
\* the frames the far end may send: the protocol's types (its completion frame has
\* type "complete"), and the type gql_complete names
FrameIds == {Itoa(0), Itoa(1), NilId}

Frames ==
  {[type |-> gql_connection_keep_alive, id |-> NilId]} \cup
  {[type |-> ty, id |-> i] :
     ty \in {gql_data, gql_error, "complete", gql_complete}, i \in FrameIds}

NoMsg == [type |-> "", id |-> NilId, payload |-> 0]

ReadErrors == {"EOF", "ErrUnexpectedEOF", "wrapped unexpected EOF", "other"}

\* the two tests of lines 500 and 504
IsEndOfStream(e) ==
  \/ e = "ErrUnexpectedEOF" \/ e = "EOF"
  \/ e = "wrapped unexpected EOF"

\* a dispatch that wraps every payload as Data
PayloadAlwaysData(m) == [Data |-> m.payload, Error |-> 0]

\* SubscriptionPayload{Error: msg.Payload} / SubscriptionPayload{Data: msg.Payload}
Payload(m) ==
  IF m.type = gql_error
    THEN [Data |-> 0, Error |-> m.payload]
    ELSE [Data |-> m.payload, Error |-> 0]

\* sync.Map operations
Loaded(id) == IF id \in DOMAIN subs THEN subs[id] ELSE NilCh
Stored(m, id, c) == [k \in DOMAIN m \cup {id} |-> IF k = id THEN c ELSE m[k]]
Deleted(m, id) == [k \in DOMAIN m \ {id} |-> m[k]]

\* close(ch)
Closed(cs, c) == [cs EXCEPT ![c].closed = TRUE]

\* the outcomes of a WriteJSON on the connection: TRUE is success
WriteOutcomes == IF wsClosed THEN {FALSE} ELSE {TRUE, FALSE}

\* the connection_init frame the constructor writes
InitFrame == [type |-> gql_connection_init, id |-> NilId]

\* the constructor has returned (subClient, nil) after a connection_ack
Constructed ==
  [pc |-> "returned", conn |-> TRUE, msgType |-> "", msgPayload |-> "",
   err |-> "nil", client |-> TRUE]

\* ------------------------------------------------------------------- Init
\* the state when SubscriptionClient() has returned a client
Init ==
  /\ proc = "running"
  /\ hs = Constructed
  /\ loopPc = "spawned"
  /\ panicking = FALSE
  /\ msg = NoMsg
  /\ ch = NilCh
  /\ visited = {}
  /\ sweepStart = << >>
  /\ subWait = 0
  /\ subIdGen = 0
  /\ subs = << >>
  /\ chans = << >>
  /\ wsClosed = FALSE
  /\ nread = 0
  /\ completeSeen = {}
  /\ outbound = SetToBag({InitFrame})
  /\ pc = [t \in Tasks |-> "idle"]
  /\ loc = [t \in Tasks |-> [id |-> NilId, tmp |-> 0, subChan |-> NilCh]]
  /\ ret = ""
  /\ calls = 0
  /\ held = {}

\* ---------------------------------------------------------------- subWork
\* a return or a panic in subWork starts the deferred subs.Range
Unwind(p) ==
  /\ loopPc' = "sweep"
  /\ msg' = NoMsg
  /\ panicking' = p
  /\ visited' = {}
  /\ sweepStart' = subs

\* c.subWait.Add(1), the first statement of the goroutine
LoopStart ==
  /\ proc = "running" /\ loopPc = "spawned"
  /\ subWait' = subWait + 1
  /\ loopPc' = "read"
  /\ UNCHANGED <<hs, proc, panicking, msg, ch, visited, sweepStart,
                 subIdGen, subs, chans, wsClosed, nread, completeSeen, outbound,
                 pc, loc, ret, held, calls>>

\* ReadJSON returns a frame
LoopReadFrame ==
  /\ proc = "running" /\ loopPc = "read"
  /\ ~wsClosed
  /\ nread < MaxFrames
  /\ \E f \in Frames :
       /\ msg' = [type |-> f.type, id |-> f.id, payload |-> nread + 1]
       /\ completeSeen' = IF f.type = "complete" /\ f.id \in DOMAIN subs
                            THEN completeSeen \cup {f.id}
                            ELSE completeSeen
  /\ nread' = nread + 1
  /\ loopPc' = "dispatch"
  /\ UNCHANGED <<hs, proc, panicking, ch, visited, sweepStart, subWait, subIdGen,
                 subs, chans, wsClosed, outbound, pc, loc, ret, held, calls>>

\* ReadJSON returns an error: end of stream returns, anything else log.Fatalf
LoopReadError ==
  /\ proc = "running" /\ loopPc = "read"
  /\ \E e \in (IF wsClosed THEN {"other"} ELSE ReadErrors) :
       IF IsEndOfStream(e)
         THEN Unwind(FALSE) /\ proc' = proc
         ELSE /\ proc' = "exited"
              /\ UNCHANGED <<loopPc, msg, panicking, visited, sweepStart>>
  /\ UNCHANGED <<hs, ch, subWait, subIdGen, subs, chans, wsClosed, nread,
                 completeSeen, outbound, pc, loc, ret, held, calls>>

\* a send that does not wait for a receiver (a channel with a buffer)
StartSendBuffered(m, c) ==
  /\ chans' = [chans EXCEPT ![c].items = Append(@, Payload(m))]
  /\ loopPc' = "read" /\ msg' = NoMsg
  /\ UNCHANGED <<ch, panicking, visited, sweepStart>>

\* ch <- payload on a channel made by make(Subscription): subWork waits for a receiver
StartSend(m, c) ==
  /\ loopPc' = "send" /\ ch' = c
  /\ UNCHANGED <<msg, panicking, visited, sweepStart, chans>>

\* case gql_error, gql_data: *msg.Id, Load, type assertion, the send
DispatchItem(m) ==
  LET c == Loaded(m.id) IN
  IF m.id = NilId \/ c = NilCh \/ chans[c].closed
    THEN Unwind(TRUE) /\ UNCHANGED <<ch, chans>>
    ELSE StartSend(m, c)

\* case gql_complete: *msg.Id, Load, type assertion, close
DispatchComplete(m) ==
  LET c == Loaded(m.id) IN
  IF m.id = NilId \/ c = NilCh \/ chans[c].closed
    THEN Unwind(TRUE) /\ UNCHANGED <<ch, chans>>
    ELSE /\ chans' = Closed(chans, c)
         /\ loopPc' = "delete"
         /\ UNCHANGED <<msg, ch, panicking, visited, sweepStart>>

\* the switch on msg.Type; any other type goes round the loop, to a fresh msg
Dispatch(m) ==
  CASE m.type \in {gql_error, gql_data} -> DispatchItem(m)
    [] m.type = gql_complete -> DispatchComplete(m)
    [] OTHER -> /\ loopPc' = "read" /\ msg' = NoMsg
                /\ UNCHANGED <<ch, panicking, visited, sweepStart, chans>>

LoopDispatch ==
  /\ proc = "running" /\ loopPc = "dispatch"
  /\ Dispatch(msg)
  /\ UNCHANGED <<hs, proc, subWait, subIdGen, subs, wsClosed, nread, completeSeen,
                 outbound, pc, loc, ret, held, calls>>

\* c.subs.Delete(id) after the close
LoopDelete ==
  /\ proc = "running" /\ loopPc = "delete"
  /\ subs' = Deleted(subs, msg.id)
  /\ loopPc' = "read"
  /\ msg' = NoMsg
  /\ UNCHANGED <<hs, proc, panicking, ch, visited, sweepStart,
                 subWait, subIdGen, chans, wsClosed, nread, completeSeen, outbound,
                 pc, loc, ret, held, calls>>

\* a caller receives from the channel subWork is blocked sending on
Receive(c) ==
  /\ proc = "running" /\ loopPc = "send"
  /\ c \in held /\ c = ch
  /\ chans' = [chans EXCEPT ![c].items = Append(@, Payload(msg))]
  /\ loopPc' = "read"
  /\ msg' = NoMsg /\ ch' = NilCh
  /\ UNCHANGED <<hs, proc, panicking, visited, sweepStart,
                 subWait, subIdGen, subs, wsClosed, nread, completeSeen, outbound,
                 pc, loc, ret, held, calls>>

\* one call of the function passed to the deferred subs.Range
LoopSweepStep ==
  /\ proc = "running" /\ loopPc = "sweep"
  /\ \E k \in DOMAIN subs \ visited :
       /\ visited' = IF chans[subs[k]].closed THEN {} ELSE visited \cup {k}
       /\ IF chans[subs[k]].closed
            THEN /\ panicking' = TRUE /\ loopPc' = "deferDone"
                 /\ chans' = chans /\ sweepStart' = << >>
            ELSE /\ chans' = Closed(chans, subs[k])
                 /\ UNCHANGED <<panicking, loopPc, sweepStart>>
  /\ UNCHANGED <<hs, proc, msg, ch, subWait, subIdGen, subs,
                 wsClosed, nread, completeSeen, outbound, pc, loc, ret, held, calls>>

\* the deferred subs.Range returns: every key present since it began was visited
LoopSweepEnd ==
  /\ proc = "running" /\ loopPc = "sweep"
  /\ (DOMAIN sweepStart \cap DOMAIN subs) \subseteq visited
  /\ loopPc' = "deferDone"
  /\ visited' = {} /\ sweepStart' = << >>
  /\ UNCHANGED <<hs, proc, panicking, msg, ch,
                 subWait, subIdGen, subs, chans, wsClosed, nread, completeSeen, outbound,
                 pc, loc, ret, held, calls>>

\* the deferred c.subWait.Done(); an unrecovered panic then ends the process
LoopDone ==
  /\ proc = "running" /\ loopPc = "deferDone"
  /\ subWait' = subWait - 1
  /\ IF panicking
       THEN proc' = "crashed" /\ loopPc' = loopPc
       ELSE proc' = proc /\ loopPc' = "done"
  /\ UNCHANGED <<hs, panicking, msg, ch, visited, sweepStart, subIdGen,
                 subs, chans, wsClosed, nread, completeSeen, outbound, pc, loc, ret,
                 held, calls>>

SubWork ==
  \/ LoopStart \/ LoopReadFrame \/ LoopReadError \/ LoopDispatch
  \/ LoopDelete \/ LoopSweepStep \/ LoopSweepEnd \/ LoopDone

\* ------------------------------------------------------------ caller tasks
NoLoc == [id |-> NilId, tmp |-> 0, subChan |-> NilCh]

\* c.subWebsocket is set when the client is constructed (line 430) and never reassigned
subWebsocketIsNil == FALSE

\* an increment that is lost
NextGenStuck(n) == n

\* c.subIdGen++ writes the value it loaded plus one
NextGen(n) == n + 1

\* the Subscribe calls that have taken an identifier
Started ==
  Len(chans) + Cardinality({t \in Tasks : pc[t] \in {"sub_load", "sub_inc", "sub_store"}})

\* WriteJSON(f) succeeded
Written(f) == outbound (+) SetToBag({f})

\* Subscribe: json encoding of the request fails, before any identifier is taken
SubEncodeFail(t) ==
  /\ hs.client
  /\ proc = "running" /\ pc[t] = "idle"
  /\ ret' = "err"
  /\ UNCHANGED <<hs, proc, loopVars, subWait, subIdGen, subs, chans, wsClosed,
                 nread, completeSeen, outbound, pc, loc, held, calls>>

\* Subscribe: id := strconv.Itoa(c.subIdGen)
SubBegin(t) ==
  /\ hs.client
  /\ proc = "running" /\ pc[t] = "idle"
  /\ Started < MaxSubscribes
  /\ loc' = [loc EXCEPT ![t].id = Itoa(subIdGen)]
  /\ pc' = [pc EXCEPT ![t] = "sub_load"]
  /\ UNCHANGED <<hs, proc, loopVars, subWait, subIdGen, subs, chans, wsClosed,
                 nread, completeSeen, outbound, ret, held, calls>>

\* Subscribe: c.subIdGen++, the load
SubLoadGen(t) ==
  /\ proc = "running" /\ pc[t] = "sub_load"
  /\ loc' = [loc EXCEPT ![t].tmp = subIdGen]
  /\ pc' = [pc EXCEPT ![t] = "sub_inc"]
  /\ UNCHANGED <<hs, proc, loopVars, subWait, subIdGen, subs, chans, wsClosed,
                 nread, completeSeen, outbound, ret, held, calls>>

\* Subscribe: c.subIdGen++, the store
SubStoreGen(t) ==
  /\ proc = "running" /\ pc[t] = "sub_inc"
  /\ subIdGen' = NextGen(loc[t].tmp)
  /\ pc' = [pc EXCEPT ![t] = "sub_store"]
  /\ UNCHANGED <<hs, proc, loopVars, subWait, subs, chans, wsClosed,
                 nread, completeSeen, outbound, loc, ret, held, calls>>

\* Subscribe: subChan := make(Subscription); c.subs.Store(id, subChan)
SubStore(t) ==
  /\ proc = "running" /\ pc[t] = "sub_store"
  /\ chans' = Append(chans, [id |-> loc[t].id, closed |-> FALSE, items |-> << >>])
  /\ subs' = Stored(subs, loc[t].id, Len(chans) + 1)
  /\ loc' = [loc EXCEPT ![t].subChan = Len(chans) + 1]
  /\ pc' = [pc EXCEPT ![t] = "sub_write"]
  /\ UNCHANGED <<hs, proc, loopVars, subWait, subIdGen, wsClosed,
                 nread, completeSeen, outbound, ret, held, calls>>

\* Subscribe: WriteJSON(sReq) and the return
SubWrite(t) ==
  /\ proc = "running" /\ pc[t] = "sub_write"
  /\ \E ok \in WriteOutcomes :
       IF ok
         THEN /\ outbound' = Written([type |-> gql_start, id |-> loc[t].id])
              /\ ret' = "nil"
              /\ held' = held \cup {loc[t].subChan}
         ELSE /\ ret' = "err"
              /\ UNCHANGED <<outbound, held>>
  /\ loc' = [loc EXCEPT ![t] = NoLoc]
  /\ pc' = [pc EXCEPT ![t] = "idle"]
  /\ UNCHANGED <<hs, proc, loopVars, subWait, subIdGen, subs, chans, wsClosed,
                 nread, completeSeen, calls>>

\* Unsubscribe: Range over subs for the entry whose value is sub, write stop
Unsubscribe(t, sub) ==
  /\ hs.client
  /\ proc = "running" /\ pc[t] = "idle"
  /\ sub \in held
  /\ ~BagIn([type |-> gql_stop, id |-> chans[sub].id], outbound)
  /\ LET found == {k \in DOMAIN subs : subs[k] = sub} IN
       IF found = {}
         THEN outbound' = outbound
         ELSE \E k \in found : \E ok \in WriteOutcomes :
                outbound' = IF ok THEN Written([type |-> gql_stop, id |-> k])
                                  ELSE outbound
  /\ UNCHANGED <<hs, proc, loopVars, subWait, subIdGen, subs, chans, wsClosed,
                 nread, completeSeen, pc, loc, ret, held, calls>>

\* Close: the nil test and WriteJSON(connection_terminate)
CloseBegin(t) ==
  /\ hs.client
  /\ proc = "running" /\ pc[t] = "idle"
  /\ calls < MaxCloses
  /\ calls' = calls + 1
  /\ IF subWebsocketIsNil
       THEN /\ ret' = "nil"
            /\ UNCHANGED <<outbound, pc>>
       ELSE \E ok \in WriteOutcomes :
              IF ok
                THEN /\ outbound' = Written([type |-> gql_connection_terminate, id |-> NilId])
                     /\ pc' = [pc EXCEPT ![t] = "close_wait"]
                     /\ ret' = ret
                ELSE /\ ret' = "err"
                     /\ UNCHANGED <<outbound, pc>>
  /\ UNCHANGED <<hs, proc, loopVars, subWait, subIdGen, subs, chans, wsClosed,
                 nread, completeSeen, loc, held>>

\* Close: c.subWait.Wait() returns once the counter is zero
CloseWait(t) ==
  /\ proc = "running" /\ pc[t] = "close_wait"
  /\ subWait = 0
  /\ pc' = [pc EXCEPT ![t] = "close_conn"]
  /\ UNCHANGED <<hs, proc, loopVars, subWait, subIdGen, subs, chans, wsClosed,
                 nread, completeSeen, outbound, loc, ret, held, calls>>

\* Close: c.subWebsocket.Close() and the return
CloseConn(t) ==
  /\ proc = "running" /\ pc[t] = "close_conn"
  /\ IF wsClosed
       THEN /\ ret' = "err"
            /\ wsClosed' = wsClosed
       ELSE /\ ret' = "nil"
            /\ wsClosed' = TRUE
  /\ pc' = [pc EXCEPT ![t] = "idle"]
  /\ UNCHANGED <<hs, proc, loopVars, subWait, subIdGen, subs, chans,
                 nread, completeSeen, outbound, loc, held, calls>>

InSubscribe(t) ==
  pc[t] \in {"sub_load", "sub_inc", "sub_store", "sub_write", "sub_writing"}

\* a Subscribe call issued when no other Subscribe call is in progress
SubBeginSeq(t) ==
  /\ \A u \in Tasks : ~InSubscribe(u)
  /\ SubBegin(t)

SubscribeRest(t) ==
  \/ SubEncodeFail(t) \/ SubLoadGen(t) \/ SubStoreGen(t) \/ SubStore(t) \/ SubWrite(t)

Close(t) == CloseBegin(t) \/ CloseWait(t) \/ CloseConn(t)

Others ==
  \/ SubWork
  \/ \E c \in 1..Len(chans) : Receive(c)
  \/ \E t \in Tasks : SubscribeRest(t)
  \/ \E t \in Closers : Close(t)
  \/ \E t \in Unsubscribers : \E c \in 1..Len(chans) : Unsubscribe(t, c)

\* caller tasks call Subscribe concurrently
Next == Others \/ \E t \in Tasks : SubBegin(t)

Spec == Init /\ [][Next]_vars

\* Subscribe calls are issued one after another
NextSeq == Others \/ \E t \in Tasks : SubBeginSeq(t)

SpecSeq == Init /\ [][NextSeq]_vars

\* --------------------------------------------------------------- fairness
\* the goroutines are scheduled: subWork takes its next step when it has one (a read
\* returns a frame or an error in the end), and a call that has begun goes on to its
\* return. Nothing obliges a caller to begin a call or to receive from a channel.
SpecFair ==
  /\ Init /\ [][NextSeq]_vars
  /\ WF_vars(SubWork)
  /\ \A t \in Tasks :
       WF_vars(SubLoadGen(t) \/ SubStoreGen(t) \/ SubStore(t) \/ SubWrite(t))
  /\ \A t \in Closers : WF_vars(CloseWait(t) \/ CloseConn(t))

\* ------------------------------------------------- writes that take time
\* WriteJSON on the shared *websocket.Conn, as a call that begins and ends; nothing
\* in the client serialises the callers
Writing(t) == pc[t] \in {"sub_writing", "unsub_writing", "close_writing"}

\* the outcomes of a WriteJSON that ends: alone it succeeds or fails; overlapping
\* another write it is a data race on the connection, which may also panic
WriteEndOutcomes(t) ==
  IF \E u \in Tasks \ {t} : Writing(u)
    THEN {"ok", "err", "panic"}
    ELSE {IF ok THEN "ok" ELSE "err" : ok \in WriteOutcomes}

\* Subscribe: WriteJSON(sReq) is entered
SubWriteBegin(t) ==
  /\ proc = "running" /\ pc[t] = "sub_write"
  /\ pc' = [pc EXCEPT ![t] = "sub_writing"]
  /\ UNCHANGED <<hs, proc, loopVars, subWait, subIdGen, subs, chans, wsClosed,
                 nread, completeSeen, outbound, loc, ret, held, calls>>

\* Subscribe: WriteJSON(sReq) returns, and Subscribe returns
SubWriteEnd(t) ==
  /\ proc = "running" /\ pc[t] = "sub_writing"
  /\ \E o \in WriteEndOutcomes(t) :
       /\ proc' = IF o = "panic" THEN "crashed" ELSE proc
       /\ outbound' = IF o = "ok" THEN Written([type |-> gql_start, id |-> loc[t].id])
                                  ELSE outbound
       /\ held' = IF o = "ok" THEN held \cup {loc[t].subChan} ELSE held
       /\ ret' = CASE o = "ok" -> "nil" [] o = "err" -> "err" [] OTHER -> ret
       /\ loc' = IF o = "panic" THEN loc ELSE [loc EXCEPT ![t] = NoLoc]
       /\ pc' = IF o = "panic" THEN pc ELSE [pc EXCEPT ![t] = "idle"]
  /\ UNCHANGED <<hs, loopVars, subWait, subIdGen, subs, chans, wsClosed,
                 nread, completeSeen, calls>>

\* Unsubscribe: the Range finds the entry of sub and WriteJSON(stop) is entered
UnsubWriteBegin(t, sub) ==
  /\ hs.client
  /\ proc = "running" /\ pc[t] = "idle"
  /\ sub \in held
  /\ ~BagIn([type |-> gql_stop, id |-> chans[sub].id], outbound)
  /\ \E k \in {j \in DOMAIN subs : subs[j] = sub} :
       loc' = [loc EXCEPT ![t].id = k]
  /\ pc' = [pc EXCEPT ![t] = "unsub_writing"]
  /\ UNCHANGED <<hs, proc, loopVars, subWait, subIdGen, subs, chans, wsClosed,
                 nread, completeSeen, outbound, ret, held, calls>>

\* Unsubscribe: WriteJSON(stop) returns, its error is dropped
UnsubWriteEnd(t) ==
  /\ proc = "running" /\ pc[t] = "unsub_writing"
  /\ \E o \in WriteEndOutcomes(t) :
       /\ proc' = IF o = "panic" THEN "crashed" ELSE proc
       /\ outbound' = IF o = "ok" THEN Written([type |-> gql_stop, id |-> loc[t].id])
                                  ELSE outbound
       /\ loc' = IF o = "panic" THEN loc ELSE [loc EXCEPT ![t] = NoLoc]
       /\ pc' = IF o = "panic" THEN pc ELSE [pc EXCEPT ![t] = "idle"]
  /\ UNCHANGED <<hs, loopVars, subWait, subIdGen, subs, chans, wsClosed,
                 nread, completeSeen, ret, held, calls>>

\* Close: the nil test fails and WriteJSON(connection_terminate) is entered
CloseWriteBegin(t) ==
  /\ hs.client
  /\ proc = "running" /\ pc[t] = "idle"
  /\ calls < MaxCloses
  /\ ~subWebsocketIsNil
  /\ calls' = calls + 1
  /\ pc' = [pc EXCEPT ![t] = "close_writing"]
  /\ UNCHANGED <<hs, proc, loopVars, subWait, subIdGen, subs, chans, wsClosed,
                 nread, completeSeen, outbound, loc, ret, held>>

\* Close: WriteJSON(connection_terminate) returns
CloseWriteEnd(t) ==
  /\ proc = "running" /\ pc[t] = "close_writing"
  /\ \E o \in WriteEndOutcomes(t) :
       /\ proc' = IF o = "panic" THEN "crashed" ELSE proc
       /\ outbound' = IF o = "ok"
                         THEN Written([type |-> gql_connection_terminate, id |-> NilId])
                         ELSE outbound
       /\ ret' = IF o = "err" THEN "err" ELSE ret
       /\ pc' = CASE o = "ok" -> [pc EXCEPT ![t] = "close_wait"]
                  [] o = "err" -> [pc EXCEPT ![t] = "idle"]
                  [] OTHER -> pc
  /\ UNCHANGED <<hs, loopVars, subWait, subIdGen, subs, chans, wsClosed,
                 nread, completeSeen, loc, held, calls>>

\* the client with every write a begin and an end; Subscribe calls are issued one
\* after another, and overlap the Close and Unsubscribe calls of the other task
NextW ==
  \/ SubWork
  \/ \E c \in 1..Len(chans) : Receive(c)
  \/ \E t \in Tasks :
       \/ SubBeginSeq(t) \/ SubLoadGen(t) \/ SubStoreGen(t)
       \/ SubStore(t) \/ SubWriteBegin(t) \/ SubWriteEnd(t)
  \/ \E t \in Closers :
       \/ CloseWriteBegin(t) \/ CloseWriteEnd(t) \/ CloseWait(t) \/ CloseConn(t)
  \/ \E t \in Unsubscribers :
       \/ UnsubWriteEnd(t)
       \/ \E c \in 1..Len(chans) : UnsubWriteBegin(t, c)

SpecW == Init /\ [][NextW]_vars

\* ------------------------------------------------------------ constructor
\* Client.SubscriptionClient: dial, connection_init, one reply, go subWork
NilPayload == "<nil>"   \* msg.Payload == nil

\* the single reply of the far end: its type, and its payload member
ReplyTypes == {gql_connection_ack, gql_connection_error, gql_connection_keep_alive}
ReplyPayloads == {"absent", "null", "value"}

\* ReadJSON into msg.Payload (*json.RawMessage): a member that is absent leaves the
\* field as it was, null sets the pointer to nil, a value is stored
DecodePayload(old, p) ==
  CASE p = "absent" -> old
    [] p = "null" -> NilPayload
    [] OTHER -> p

Returned(e) ==
  [pc |-> "returned", conn |-> hs.conn, msgType |-> "", msgPayload |-> "",
   err |-> e, client |-> FALSE]

consVars == <<loopVars, subWait, subIdGen, subs, chans, nread, completeSeen,
              pc, loc, ret, held, calls>>

\* before SubscriptionClient() is called
InitDial ==
  /\ hs = [pc |-> "dial", conn |-> FALSE, msgType |-> "", msgPayload |-> "",
           err |-> "", client |-> FALSE]
  /\ proc = "running"
  /\ loopPc = "none"
  /\ panicking = FALSE
  /\ msg = NoMsg
  /\ ch = NilCh
  /\ visited = {}
  /\ sweepStart = << >>
  /\ subWait = 0
  /\ subIdGen = 0
  /\ subs = << >>
  /\ chans = << >>
  /\ wsClosed = FALSE
  /\ nread = 0
  /\ completeSeen = {}
  /\ outbound = EmptyBag
  /\ pc = [t \in Tasks |-> "idle"]
  /\ loc = [t \in Tasks |-> NoLoc]
  /\ ret = ""
  /\ calls = 0
  /\ held = {}

\* dialer.DialContext; on an error conn is nil and the error is returned
Dial ==
  /\ proc = "running" /\ hs.pc = "dial"
  /\ \E ok \in BOOLEAN :
       hs' = IF ok THEN [hs EXCEPT !.pc = "write_init", !.conn = TRUE]
                   ELSE Returned("dial")
  /\ UNCHANGED <<proc, consVars, wsClosed, outbound>>

\* msg.Type = gql_connection_init; msg.Payload = &emptyPayload; conn.WriteJSON(msg)
WriteInit ==
  /\ proc = "running" /\ hs.pc = "write_init"
  /\ \E ok \in WriteOutcomes :
       IF ok
         THEN /\ outbound' = Written(InitFrame)
              /\ hs' = [hs EXCEPT !.pc = "read_reply",
                                  !.msgType = gql_connection_init, !.msgPayload = "{}"]
         ELSE /\ outbound' = outbound
              /\ hs' = Returned("write")
  /\ UNCHANGED <<proc, consVars, wsClosed>>

\* conn.ReadJSON(&msg), into the msg that was written
ReadReply ==
  /\ proc = "running" /\ hs.pc = "read_reply"
  /\ \/ \E ty \in ReplyTypes, p \in ReplyPayloads :
          hs' = [hs EXCEPT !.pc = "check", !.msgType = ty,
                           !.msgPayload = DecodePayload(hs.msgPayload, p)]
     \/ hs' = Returned("read")
  /\ UNCHANGED <<proc, consVars, wsClosed, outbound>>

\* the test of msg.Type, then either conn.Close() and an error, or go subWork
CheckReply ==
  /\ proc = "running" /\ hs.pc = "check"
  /\ IF hs.msgType # gql_connection_ack
       THEN /\ wsClosed' = TRUE
            /\ loopPc' = loopPc
            /\ IF hs.msgType = gql_connection_error
                 THEN IF hs.msgPayload = NilPayload
                        THEN /\ proc' = "crashed"      \* *msg.Payload of a nil pointer
                             /\ hs' = [hs EXCEPT !.pc = "panicked"]
                        ELSE /\ proc' = proc
                             /\ hs' = Returned(hs.msgPayload)
                 ELSE /\ proc' = proc
                      /\ hs' = Returned("server-did-not-acknowledge")
       ELSE /\ loopPc' = "spawned"
            /\ hs' = Constructed
            /\ UNCHANGED <<proc, wsClosed>>
  /\ UNCHANGED <<panicking, msg, ch, visited, sweepStart, subWait, subIdGen, subs,
                 chans, nread, completeSeen, outbound, pc, loc, ret, held, calls>>

SubscriptionClient == Dial \/ WriteInit \/ ReadReply \/ CheckReply

\* the constructor, then the client it returned
NextDial == SubscriptionClient \/ Next

SpecDial == InitDial /\ [][NextDial]_vars

\* ============================================================== properties
ChanIds == 1..Len(chans)
TakingId(t) == pc[t] \in {"sub_load", "sub_inc", "sub_store"}
Dispatched == loopPc = "dispatch" /\ loopPc' # "dispatch"

\* the integer an identifier string denotes
Atoi(s) == CHOOSE n \in 0..(MaxSubscribes + 1) : Itoa(n) = s

\* the Output Item a frame stands for: tagged by the frame's type, carrying its payload
Tagged(m) ==
  IF m.type = "data" THEN [Data |-> m.payload, Error |-> 0]
                     ELSE [Data |-> 0, Error |-> m.payload]

\* C1: when subWork reads a data (error) frame whose id is registered, it sends on
\* the channel registered under that id; that channel then receives exactly one item,
\* tagged data (error) and carrying that frame's payload, and no other channel
\* receives anything.
C1_DeliverToSubscriber ==
  [][/\ (Dispatched /\ msg.type \in {"data", "error"} /\ msg.id \in DOMAIN subs)
          => (loopPc' = "send" /\ ch' = subs[msg.id] /\ msg' = msg)
     /\ \A c \in ChanIds :
          chans'[c].items # chans[c].items
            => /\ loopPc = "send" /\ c = ch /\ loopPc' = "read"
               /\ chans'[c].items = Append(chans[c].items, Tagged(msg))
     /\ (loopPc = "send" /\ loopPc' # "send")
          => chans'[ch].items = Append(chans[ch].items, Tagged(msg))
    ]_vars

\* an error item has been delivered while two subscribers were registered
C1_Witness ==
  /\ Cardinality(DOMAIN subs) >= 2
  /\ \E c \in ChanIds : \E i \in 1..Len(chans[c].items) : chans[c].items[i].Error # 0

\* C2: when subWork reads a frame of wire type "complete" whose id X is registered,
\* it closes X's channel, and X is out of the registry when it reads the next frame.
C2_CompleteCloses ==
  [][(Dispatched /\ msg.type = "complete" /\ msg.id \in DOMAIN subs)
        => /\ chans'[subs[msg.id]].closed
           /\ loopPc' = "read" => msg.id \notin DOMAIN subs'
    ]_vars

\* C3: the items a subscriber receives are the data/error frames of its id that were
\* read before its "complete" frame, in the order read: every item received comes
\* before the complete frame of its id and after every item received before it.
C3_ItemsBeforeComplete ==
  [][\A c \in ChanIds :
       chans'[c].items # chans[c].items
         => /\ chans[c].id \notin completeSeen
            /\ \A i \in 1..Len(chans[c].items) :
                 chans[c].items[i].Data + chans[c].items[i].Error < msg.payload
    ]_vars

\* C4: a data, error or complete frame whose id is not in the registry is dropped:
\* subWork goes on to read the next frame, and the registry and channels are as before.
C4_UnknownIdDropped ==
  [][(Dispatched /\ msg.type \in {"data", "error", "complete"}
        /\ msg.id # NilId /\ msg.id \notin DOMAIN subs)
        => /\ loopPc' = "read" /\ ~panicking' /\ proc' = "running"
           /\ subs' = subs /\ chans' = chans
    ]_vars

\* C5: with Subscribe calls issued one after another, every identifier taken is
\* strictly greater than every identifier taken before it.
C5_IdsIncrease ==
  /\ \A i, j \in ChanIds : i < j => Atoi(chans[i].id) < Atoi(chans[j].id)
  /\ \A t \in Tasks : TakingId(t)
       => \A i \in ChanIds : Atoi(chans[i].id) < Atoi(loc[t].id)

\* two identifiers taken one after the other: the first subscriber was unsubscribed,
\* completed and removed in between, and the second Subscribe failed in its write
C5_Witness ==
  /\ Len(chans) >= 2
  /\ BagIn([type |-> gql_stop, id |-> chans[1].id], outbound)
  /\ chans[1].closed /\ chans[1].id \notin DOMAIN subs
  /\ chans[2].id \in DOMAIN subs /\ 2 \notin held
  /\ \A t \in Tasks : pc[t] = "idle"

\* C6: concurrent Subscribe calls take distinct identifiers, and no call's registry
\* entry is overwritten by another's.
C6_ConcurrentIdsDistinct ==
  /\ \A i, j \in ChanIds : i # j => chans[i].id # chans[j].id
  /\ \A t, u \in Tasks : (t # u /\ TakingId(t) /\ TakingId(u)) => loc[t].id # loc[u].id
  /\ \A t \in Tasks : TakingId(t) => \A i \in ChanIds : chans[i].id # loc[t].id

\* C7: when ReadJSON returns an end of stream, subWork reads no further frame and
\* every channel that was in the registry at that moment is closed when it exits.
C7_EndOfStreamClosesAll ==
  [][/\ loopPc \in {"sweep", "deferDone", "done"} => nread' = nread
     /\ (loopPc = "sweep" /\ loopPc' = "deferDone" /\ ~panicking')
          => \A k \in DOMAIN sweepStart : chans'[sweepStart[k]].closed
    ]_vars

\* C8: a read error that is not an end of stream does not terminate the process
\* (proc becomes "exited" only by the log.Fatalf of that path).
C8_ReadErrorRecoverable == proc # "exited"

\* C9: Close has not passed its Wait, and the connection is not closed, until subWork
\* has exited and every registered channel is closed.
C9_CloseWaitsForLoop ==
  (wsClosed \/ \E t \in Tasks : pc[t] = "close_conn")
    => /\ loopPc = "done"
       /\ \A k \in DOMAIN subs : chans[subs[k]].closed

EngineClosed == wsClosed \/ loopPc = "done"

\* C10: Close called on a client that is already closed (by an earlier Close, or
\* because subWork exited on an end of stream) returns nil, writes no frame and
\* changes nothing.
C10_CloseIdempotent ==
  [][(EngineClosed /\ calls' = calls + 1)
        => /\ ret' = "nil"
           /\ outbound' = outbound
           /\ UNCHANGED <<pc, wsClosed, subs, chans, subWait>>
    ]_vars

\* C15: when the reply is connection_error the constructor returns an error that
\* carries the reply's payload, returns no client and starts no subWork; subWork is
\* started only after a connection_ack, and only once.
C15_RejectedHandshake ==
  [][/\ (hs.pc = "check" /\ hs.msgType = gql_connection_error /\ hs' # hs)
          => /\ hs'.pc = "returned" /\ ~hs'.client
             /\ hs'.err = hs.msgPayload
             /\ proc' = "running"
             /\ loopPc' = "none"
     /\ (loopPc' # loopPc /\ (loopPc = "none" \/ loopPc' = "spawned"))
          => /\ hs.pc = "check" /\ hs.msgType = gql_connection_ack
             /\ loopPc = "none" /\ loopPc' = "spawned"
    ]_vars

\* C16: when the constructor has returned an error after conn was opened, conn is
\* closed.
C16_FailedHandshakeClosesConn ==
  (hs.pc = "returned" /\ hs.conn /\ ~hs.client) => wsClosed

\* C12: no channel is closed twice (a close of a closed channel panics) and no entry
\* is removed twice; a "complete" frame read for a registered id after its stop frame
\* was written closes the channel, once, and the Delete that follows removes the entry.
C12_ClosedAndRemovedOnce ==
  [][/\ (loopPc = "sweep" /\ loopPc' = "deferDone") => panicking' = panicking
     /\ (Dispatched /\ msg.type \in {"complete", gql_complete} /\ msg.id \in DOMAIN subs)
          => ~chans[subs[msg.id]].closed
     /\ (loopPc = "delete" /\ loopPc' # "delete")
          => (msg.id \in DOMAIN subs /\ msg.id \notin DOMAIN subs')
     /\ (/\ Dispatched /\ msg.type = "complete" /\ msg.id \in DOMAIN subs
         /\ BagIn([type |-> gql_stop, id |-> msg.id], outbound))
          => (loopPc' = "delete" /\ chans'[subs[msg.id]].closed)
    ]_vars

\* C14: when the write of the start frame fails, Subscribe returns an error, no
\* channel, and the channel it stored is no longer in the registry.
C14_FailedStartRolledBack ==
  [][\A t \in Tasks :
       (pc[t] = "sub_write" /\ pc'[t] = "idle" /\ loc[t].subChan \notin held')
         => /\ ret' = "err"
            /\ \A k \in DOMAIN subs' : subs'[k] # loc[t].subChan
    ]_vars

\* C17: when Subscribe writes its start frame its channel is in the registry under the
\* frame's id, and stays there until the channel is closed.
C17_StoredBeforeStart ==
  [][/\ \A t \in Tasks :
          (pc[t] = "sub_write" /\ pc'[t] = "idle" /\ loc[t].subChan \in held')
            => \/ (loc[t].id \in DOMAIN subs /\ subs[loc[t].id] = loc[t].subChan)
               \/ chans[loc[t].subChan].closed
     /\ \A c \in held :
          (chans[c].id \in DOMAIN subs /\ subs[chans[c].id] = c)
            => \/ (chans[c].id \in DOMAIN subs' /\ subs'[chans[c].id] = c)
               \/ chans[c].closed
    ]_vars

\* C18: when subWork has exited, every channel a successful Subscribe returned is
\* closed.
C18_AllClosedAfterShutdown ==
  loopPc = "done" => \A c \in held : chans[c].closed

\* C20: while subWork is sending an item it reads no frame, closes no channel, removes
\* no entry and delivers nothing to another channel; it leaves the send only when the
\* item is received, and then reads again. An item reaches a channel in no other way.
C20_SynchronousHandOff ==
  [][/\ loopPc = "send"
          => /\ nread' = nread
             /\ loopPc' \in {"send", "read"}
             /\ ~panicking' /\ proc' = proc
             /\ DOMAIN subs \subseteq DOMAIN subs'
             /\ \A c \in ChanIds :
                  /\ chans'[c].closed = chans[c].closed
                  /\ c # ch => chans'[c].items = chans[c].items
             /\ loopPc' = "read" <=> Len(chans'[ch].items) = Len(chans[ch].items) + 1
     /\ \A c \in ChanIds :
          chans'[c].items # chans[c].items => (loopPc = "send" /\ c = ch)
    ]_vars

\* subWork is stalled sending to one subscriber after another subscriber took an item
C20_Witness ==
  /\ loopPc = "send"
  /\ \E c \in ChanIds : c # ch /\ chans[c].items # << >>

\* C13: no two caller tasks are inside a WriteJSON on the connection at the same time.
C13_WritesExclusive ==
  \A t, u \in Tasks : (Writing(t) /\ Writing(u)) => t = u

\* the channel c is in the registry
Registered(c) == \E k \in DOMAIN subs : subs[k] = c

\* C11: once the stop frame of a registered subscriber has been written, its channel
\* is eventually closed and out of the registry (while the process runs).
C11_UnsubscribedTerminates ==
  \A c \in 1..MaxSubscribes :
    (/\ c \in held /\ Registered(c)
     /\ BagIn([type |-> gql_stop, id |-> chans[c].id], outbound))
      ~> (proc # "running" \/ (c \in ChanIds /\ chans[c].closed /\ ~Registered(c)))

\* C19: once Close has written the terminate frame and waits, it eventually returns
\* with the connection closed (while the process runs).
C19_CloseReturns ==
  \A t \in Closers :
    (pc[t] = "close_wait")
      ~> ((pc[t] = "idle" /\ wsClosed) \/ proc # "running")
====
